---------------------------- MODULE Spec2Model ----------------------------
(***************************************************************************)
(* A model of src/src/main.rs: the Bevy app of the arcade shooter.         *)
(*                                                                         *)
(* One simulation tick runs the nine systems registered with add_system.   *)
(* main() gives them no ordering (no .before/.after, no labels), so the    *)
(* engine may run them in any order within a tick: each system is one      *)
(* action, enabled once per tick.  Commands (spawn, insert, despawn) are   *)
(* deferred: a system only queues them, and the queues are applied when    *)
(* the stage ends (EndTick), after which the engine propagates Transform   *)
(* to GlobalTransform.                                                     *)
(*                                                                         *)
(* Lengths are integers on a lattice of 1/1000 world unit, stick axes are  *)
(* in 1/1000 of full deflection and time is in seconds.                    *)
(*                                                                         *)
(* Spec starts at a tick boundary of a game under way, SpecTickAfter one   *)
(* tick on from there, SpecStartup at App::new() before the startup        *)
(* systems, and SpecCycle follows player_aim alone while the aim stick is  *)
(* pressed, held and let go.                                               *)
(***************************************************************************)
EXTENDS Integers, Sequences, FiniteSets, TLC

\* ------------------------------------------------------------ constants

PLAYER_SPEED == 50
ENEMY_SPEED == 10
PROJECTILE_SPEED == 50
HIT_THRESHOLD == 100
CAMERA_SPEED == 9

\* Timer::from_seconds(3., TimerMode::Repeating)
SPAWN_PERIOD == 3
\* if left_stick_x.abs() > 0.01
MOVE_DEAD_ZONE == 10
\* if right_stick_x.abs() < 0.1
AIM_DEAD_ZONE == 100
\* translation: [x_position, 0., camera_z -10.]
SPAWN_DEPTH == 10000
\* one world unit, and full stick deflection, on the lattice: HIT_THRESHOLD
\* is 0.1
UNIT == 10 * HIT_THRESHOLD

\* ------------------------------------------------------------ bounds

\* ticks simulated from an initial state
MaxTicks == 1
\* presses of the aim stick in the cycling specification
MaxPresses == 4
\* ticks the aim stick is held deflected after a press
MaxHolds == 2
MaxFieldTicks == 4

\* frame times (time.delta()) in seconds: a normal frame stays inside the
\* period, a stalled frame spans more than two periods
Deltas == {2, 7}
\* left stick (x, y) readings
LeftStickValues == {<<0, 0>>, <<UNIT, 0>>}
\* right stick x readings: full left, just inside the dead zone, at the
\* dead zone's edge, full right
RightStickValues == {-UNIT, 0, AIM_DEAD_ZONE - 1, AIM_DEAD_ZONE, UNIT}
\* rand::random::<f32>() * 4.0 - 2.0, on a few lattice points of [-2, 2)
SpawnXs == {-2 * UNIT, 0}

\* ------------------------------------------------------------ Option

None == <<>>
Some(e) == <<e>>
IsSome(o) == o # <<>>
Unwrap(o) == o[1]

\* ------------------------------------------------------------ Vec3

\* A Vec3 of f32.  nan marks a vector whose components are NaN.
Vec(x, y, z) == [x |-> x, y |-> y, z |-> z, nan |-> FALSE]
NaNVec == [x |-> 0, y |-> 0, z |-> 0, nan |-> TRUE]
ZERO == Vec(0, 0, 0)

VAdd(a, b) ==
  IF a.nan \/ b.nan THEN NaNVec ELSE Vec(a.x + b.x, a.y + b.y, a.z + b.z)

VSub(a, b) ==
  IF a.nan \/ b.nan THEN NaNVec ELSE Vec(a.x - b.x, a.y - b.y, a.z - b.z)

LengthSq(v) == v.x * v.x + v.y * v.y + v.z * v.z

Abs(i) == IF i < 0 THEN -i ELSE i

\* a / b rounded to the nearest integer, b > 0
RoundDiv(a, b) ==
  IF a >= 0 THEN (2 * a + b) \div (2 * b) ELSE -((2 * (-a) + b) \div (2 * b))

RECURSIVE SqrtBetween(_, _, _)
SqrtBetween(lo, hi, n) ==
  IF lo >= hi THEN lo
  ELSE LET mid == (lo + hi + 1) \div 2
       IN IF mid * mid <= n THEN SqrtBetween(mid, hi, n)
          ELSE SqrtBetween(lo, mid - 1, n)

\* floor of the square root
ISqrt(n) == SqrtBetween(0, 46340, n)

\* v.normalize() * scale, rounded to the lattice.  glam's normalize of the
\* zero vector multiplies by 1/0 and yields NaN in every component.
NormalizeTimes(v, scale) ==
  IF v.nan \/ LengthSq(v) = 0 THEN NaNVec
  ELSE LET len4 == ISqrt(16 * LengthSq(v))
       IN Vec(RoundDiv(4 * scale * v.x, len4),
              RoundDiv(4 * scale * v.y, len4),
              RoundDiv(4 * scale * v.z, len4))

\* (a - b).length().abs() <= HIT_THRESHOLD; a comparison with NaN is false
WithinHit(a, b) ==
  /\ ~a.nan
  /\ ~b.nan
  /\ LengthSq(VSub(a, b)) <= HIT_THRESHOLD * HIT_THRESHOLD

\* ------------------------------------------------------------ state

VARIABLES
  game,         \* the Game resource
  world,        \* live entities: id -> components, Transform, GlobalTransform
  enemies,      \* ids matched by Query<.., With<Enemy>>, in iteration order
  projectiles,  \* ids matched by Query<.., With<Projectile>>, in iteration order
  timer,        \* the EnemySpawnTimer resource
  commands,     \* each system's queue of deferred commands
  next_entity,  \* the next entity id the allocator hands out
  gamepad,      \* whether Gamepads holds a gamepad during this tick
  done,         \* the systems that have run in the current stage
  tick,         \* ticks completed
  phase,        \* "startup" or "update"
  panicked,     \* "" or the place of the panic that aborted the app
  log,          \* of the current tick: the path player_aim took and the
                \* target projectile_hit cleared; of the run: the enemies
                \* spawned, the timer periods completed and the ticks that
                \* completed one
  cycle         \* bookkeeping of the cycling specification

vars == <<game, world, enemies, projectiles, timer, commands, next_entity,
          gamepad, done, tick, phase, panicked, log, cycle>>

StartupSystems == {"setup_camera", "setup_models", "setup_lights"}

\* the add_system calls of main(), in order
SystemOrder ==
  <<"player_movement", "spawn_enemy", "enemy_movement", "weapon_movement",
    "camera_movement", "projectile_movement", "projectile_hit", "weapon_fire",
    "player_aim">>

Systems == {SystemOrder[i] : i \in 1..Len(SystemOrder)}

\* the add_startup_system calls of main(), in order
StartupOrder == <<"setup_camera", "setup_models", "setup_lights">>

LogIdle ==
  [aim |-> "idle", cleared |-> None, spawned |-> 0, periods |-> 0,
   completions |-> 0]

NoCommands == [s \in Systems \cup StartupSystems |-> <<>>]

Range(f) == {f[i] : i \in DOMAIN f}

\* An entity as the model keeps it.  heading is the Projectile component's
\* field; parent is the Parent component; spin is the angle about the x
\* axis its Transform has been rotated by, in 1/1000 radian.
Entity(comps, translation, heading, parent) ==
  [components |-> comps, translation |-> translation, global |-> translation,
   heading |-> heading, parent |-> parent, spin |-> 0]

Has(w, e, comp) == e \in DOMAIN w /\ comp \in w[e].components

\* ------------------------------------------------------------ commands

Spawn(e, bundle, translation) ==
  [op |-> "spawn", entity |-> e, component |-> bundle,
   translation |-> translation, child |-> None]

Insert(e, comp, heading) ==
  [op |-> "insert", entity |-> e, component |-> comp,
   translation |-> heading, child |-> None]

AddChild(e, child) ==
  [op |-> "add_child", entity |-> e, component |-> "",
   translation |-> ZERO, child |-> Some(child)]

DespawnRecursive(e) ==
  [op |-> "despawn_recursive", entity |-> e, component |-> "",
   translation |-> ZERO, child |-> None]

\* The storage the commands act on when a stage ends.
Storage(w, es, ps, panic) ==
  [world |-> w, enemies |-> es, projectiles |-> ps, panic |-> panic]

\* Table storage: removing a row moves the last row into its place.
SwapRemove(table, e) ==
  IF e \notin Range(table) THEN table
  ELSE LET i == CHOOSE j \in DOMAIN table : table[j] = e
           n == Len(table)
       IN SubSeq([table EXCEPT ![i] = table[n]], 1, n - 1)

RECURSIVE SwapRemoveAll(_, _)
SwapRemoveAll(table, gone) ==
  IF gone \cap Range(table) = {} THEN table
  ELSE LET e == CHOOSE x \in gone \cap Range(table) :
                  \A y \in gone \cap Range(table) : x <= y
       IN SwapRemoveAll(SwapRemove(table, e), gone \ {e})

\* an entity with its children, their children, ...
RECURSIVE WithDescendants(_, _)
WithDescendants(w, s) ==
  LET more == s \cup {c \in DOMAIN w : IsSome(w[c].parent)
                                       /\ Unwrap(w[c].parent) \in s}
  IN IF more = s THEN s ELSE WithDescendants(w, more)

Restrict(f, s) == [x \in s |-> f[x]]

ApplyCommand(st, c) ==
  LET w == st.world
      e == c.entity
  IN CASE c.op = "spawn" ->
            \* the entity was reserved when the system ran and exists, empty,
            \* since the flush: spawn inserts the bundle into it
            [st EXCEPT !.world = [w EXCEPT
               ![e].components = @ \cup {c.component},
               ![e].translation = c.translation]]
       [] c.op = "insert" ->
            \* inserting into an entity that does not exist panics
            IF e \notin DOMAIN w THEN [st EXCEPT !.panic = "insert"]
            ELSE [st EXCEPT
                    !.world = [w EXCEPT
                       ![e].components = @ \cup {c.component},
                       ![e].heading =
                          IF c.component = "Projectile" THEN c.translation
                          ELSE @],
                    !.enemies =
                       IF c.component = "Enemy" /\ e \notin Range(@)
                       THEN Append(@, e) ELSE @,
                    !.projectiles =
                       IF c.component = "Projectile" /\ e \notin Range(@)
                       THEN Append(@, e) ELSE @]
       [] c.op = "add_child" ->
            IF e \notin DOMAIN w \/ Unwrap(c.child) \notin DOMAIN w
            THEN [st EXCEPT !.panic = "add_child"]
            ELSE [st EXCEPT
                    !.world = [w EXCEPT ![Unwrap(c.child)].parent = Some(e)]]
       [] c.op = "despawn_recursive" ->
            \* despawning an entity that is gone already only logs
            IF e \notin DOMAIN w THEN st
            ELSE LET gone == WithDescendants(w, {e})
                 IN [st EXCEPT
                       !.world = Restrict(w, DOMAIN w \ gone),
                       !.enemies = SwapRemoveAll(@, gone),
                       !.projectiles = SwapRemoveAll(@, gone)]

RECURSIVE ApplyQueue(_, _)
ApplyQueue(st, queue) ==
  IF queue = <<>> \/ st.panic # "" THEN st
  ELSE ApplyQueue(ApplyCommand(st, Head(queue)), Tail(queue))

\* World::flush, which every queue's application begins with: the reserved
\* ids become entities without components
Flush(st, cmds) ==
  LET fresh == {c.entity : c \in
                  {x \in UNION {Range(cmds[s]) : s \in DOMAIN cmds} :
                     x.op = "spawn"}}
  IN [st EXCEPT !.world =
        [e \in fresh \ DOMAIN @ |-> Entity({}, ZERO, ZERO, None)] @@ @]

RECURSIVE ApplyQueues(_, _, _)
ApplyQueues(st, order, cmds) ==
  IF order = <<>> THEN st
  ELSE ApplyQueues(ApplyQueue(st, cmds[Head(order)]), Tail(order), cmds)

\* The stage applies its systems' queues in the order of the systems.
ApplyBuffers(st, order, cmds) == ApplyQueues(Flush(st, cmds), order, cmds)

\* transform_propagate_system: GlobalTransform of a root is its Transform,
\* of a child its parent's GlobalTransform composed with its Transform
\* (no parent of this app is rotated or scaled).
Propagate(w) ==
  [e \in DOMAIN w |->
     [w[e] EXCEPT !.global =
        IF IsSome(w[e].parent) /\ Unwrap(w[e].parent) \in DOMAIN w
        THEN VAdd(w[Unwrap(w[e].parent)].translation, w[e].translation)
        ELSE w[e].translation]]

\* ------------------------------------------------------------ player_aim

\* (Entity, &Transform) of every enemy, in the query's iteration order
EnemyList(w, es) ==
  [i \in DOMAIN es |-> [entity |-> es[i], x |-> w[es[i]].translation.x,
                        nan |-> w[es[i]].translation.nan]]

\* slice::sort_by is stable: an item goes behind everything not greater
InsertByX(sorted, item) ==
  LET behind == {j \in DOMAIN sorted : sorted[j].x <= item.x}
      k == IF behind = {} THEN 0
           ELSE CHOOSE j \in behind : \A l \in behind : l <= j
  IN SubSeq(sorted, 1, k) \o <<item>> \o SubSeq(sorted, k + 1, Len(sorted))

\* For comparison: a list left in the query's iteration order
Unsorted(list) == list

RECURSIVE SortByX(_)
SortByX(list) ==
  IF list = <<>> THEN <<>>
  ELSE InsertByX(SortByX(SubSeq(list, 1, Len(list) - 1)), list[Len(list)])

\* partial_cmp(..).unwrap() panics when a compared x is NaN; a list of fewer
\* than two items is never compared
SortPanics(list) == Len(list) >= 2 /\ \E i \in DOMAIN list : list[i].nan

\* For comparison: index arithmetic that lands one place to the right
AsUsizeModSkewed(i, len) == (i + 1) % len

\* (index as i32 + index_increment) as usize % len, on 64-bit usize: a
\* negative i32 sign-extends to 2^64 + i
AsUsizeMod(i, len) ==
  IF i >= 0 THEN i % len
  ELSE LET m16 == 65536 % len
           m32 == (m16 * m16) % len
           m64 == (m32 * m32) % len
       IN (m64 + (i % len)) % len

AimResult(aiming_at, is_aiming, branch) ==
  [aiming_at |-> aiming_at, is_aiming |-> is_aiming, branch |-> branch]

\* For comparison: the cycling step without its branch for a target that
\* is not in the list
SelectKeepsLostTarget(g, right_stick_x, list) ==
  IF list = <<>>
  THEN AimResult(g.aiming_at, TRUE, "no_enemies")
  ELSE IF SortPanics(list)
  THEN AimResult(g.aiming_at, TRUE, "panic")
  ELSE
    LET right == right_stick_x > 0
        ordered_enemy_list == SortByX(list)
        len == Len(ordered_enemy_list)
    IN IF g.aiming_at = None
       THEN AimResult(
              Some(IF right THEN ordered_enemy_list[len].entity
                   ELSE ordered_enemy_list[1].entity),
              TRUE, "first_target")
       ELSE
         LET found == {i \in 1..len :
                         ordered_enemy_list[i].entity = Unwrap(g.aiming_at)}
         IN IF found = {}
            THEN AimResult(g.aiming_at, TRUE, "not_found")
            ELSE
              \* index is zero-based, as in the source
              LET index == (CHOOSE i \in found : \A j \in found : i <= j) - 1
                  index_increment == IF right THEN 1 ELSE -1
                  next_enemy_index == AsUsizeMod(index + index_increment, len)
              IN IF (~right /\ index = 0) \/ (right /\ index = len - 1)
                 THEN AimResult(g.aiming_at, TRUE, "at_end")
                 ELSE AimResult(
                        Some(ordered_enemy_list[next_enemy_index + 1].entity),
                        TRUE, "next_target")

\* For comparison: the cycling step without the early returns at the two
\* ends of the order
SelectWithoutClamp(g, right_stick_x, list) ==
  IF list = <<>>
  THEN AimResult(g.aiming_at, TRUE, "no_enemies")
  ELSE IF SortPanics(list)
  THEN AimResult(g.aiming_at, TRUE, "panic")
  ELSE
    LET right == right_stick_x > 0
        ordered_enemy_list == SortByX(list)
        len == Len(ordered_enemy_list)
    IN IF g.aiming_at = None
       THEN AimResult(
              Some(IF right THEN ordered_enemy_list[len].entity
                   ELSE ordered_enemy_list[1].entity),
              TRUE, "first_target")
       ELSE
         LET found == {i \in 1..len :
                         ordered_enemy_list[i].entity = Unwrap(g.aiming_at)}
         IN IF found = {}
            THEN AimResult(None, TRUE, "not_found")
            ELSE
              \* index is zero-based, as in the source
              LET index == (CHOOSE i \in found : \A j \in found : i <= j) - 1
                  index_increment == IF right THEN 1 ELSE -1
                  next_enemy_index == AsUsizeMod(index + index_increment, len)
              IN AimResult(
                   Some(ordered_enemy_list[next_enemy_index + 1].entity),
                   TRUE, "next_target")

\* player_aim from "Okay, now we're aiming" on
Select(g, right_stick_x, list) ==
  IF list = <<>>
  THEN AimResult(g.aiming_at, TRUE, "no_enemies")
  ELSE IF SortPanics(list)
  THEN AimResult(g.aiming_at, TRUE, "panic")
  ELSE
    LET right == right_stick_x > 0
        ordered_enemy_list == SortByX(list)
        len == Len(ordered_enemy_list)
    IN IF g.aiming_at = None
       THEN AimResult(
              Some(IF right THEN ordered_enemy_list[len].entity
                   ELSE ordered_enemy_list[1].entity),
              TRUE, "first_target")
       ELSE
         LET found == {i \in 1..len :
                         ordered_enemy_list[i].entity = Unwrap(g.aiming_at)}
         IN IF found = {}
            THEN AimResult(None, TRUE, "not_found")
            ELSE
              \* index is zero-based, as in the source
              LET index == (CHOOSE i \in found : \A j \in found : i <= j) - 1
                  index_increment == IF right THEN 1 ELSE -1
                  next_enemy_index == AsUsizeMod(index + index_increment, len)
              IN IF (~right /\ index = 0) \/ (right /\ index = len - 1)
                 THEN AimResult(g.aiming_at, TRUE, "at_end")
                 ELSE AimResult(
                        Some(ordered_enemy_list[next_enemy_index + 1].entity),
                        TRUE, "next_target")

\* For comparison: player_aim without its `if game.is_aiming { return }`
PlayerAimUnlatched(g, right_stick_x, list) ==
  IF Abs(right_stick_x) < AIM_DEAD_ZONE
  THEN AimResult(g.aiming_at, FALSE, "dead_zone")
  ELSE Select(g, right_stick_x, list)

\* For comparison: player_aim whose dead zone leaves the latch alone
PlayerAimKeepsLatch(g, right_stick_x, list) ==
  IF Abs(right_stick_x) < AIM_DEAD_ZONE
  THEN AimResult(g.aiming_at, g.is_aiming, "dead_zone")
  ELSE IF g.is_aiming
  THEN AimResult(g.aiming_at, TRUE, "latched")
  ELSE Select(g, right_stick_x, list)

\* For comparison: player_aim that looks for enemies before it latches
PlayerAimLatchesOnEnemies(g, right_stick_x, list) ==
  IF Abs(right_stick_x) < AIM_DEAD_ZONE
  THEN AimResult(g.aiming_at, FALSE, "dead_zone")
  ELSE IF g.is_aiming
  THEN AimResult(g.aiming_at, TRUE, "latched")
  ELSE IF list = <<>>
  THEN AimResult(g.aiming_at, FALSE, "no_enemies")
  ELSE Select(g, right_stick_x, list)

\* The body of player_aim behind the gamepad check: what it makes of
\* game.aiming_at and game.is_aiming, and the path it took.
PlayerAim(g, right_stick_x, list) ==
  IF Abs(right_stick_x) < AIM_DEAD_ZONE
  THEN AimResult(g.aiming_at, FALSE, "dead_zone")
  ELSE IF g.is_aiming
  THEN AimResult(g.aiming_at, TRUE, "latched")
  ELSE Select(g, right_stick_x, list)

\* ------------------------------------------------------------ systems

\* A system runs once per tick, in no particular order; a panic ends the app.
Runnable(s) ==
  /\ phase = "update"
  /\ panicked = ""
  /\ tick < MaxTicks
  /\ s \notin done

\* Query::get(entity) is Ok when the entity is live and matches the query
Gets(e, with, without) ==
  /\ e \in DOMAIN world
  /\ with \subseteq world[e].components
  /\ without \cap world[e].components = {}

PlayerMoved(w, player, left) ==
  LET movement_x == IF Abs(left[1]) > MOVE_DEAD_ZONE
                    THEN (left[1] * PLAYER_SPEED) \div UNIT ELSE 0
      movement_y == IF Abs(left[2]) > MOVE_DEAD_ZONE
                    THEN (left[2] * PLAYER_SPEED) \div UNIT ELSE 0
  IN [w EXCEPT ![player].translation =
        Vec(@.x + movement_x, @.y, @.z - movement_y)]

\* player_movement on a tick whose left stick reads `left`
PlayerMovementWith(left) ==
  /\ Runnable("player_movement")
  /\ done' = done \cup {"player_movement"}
  /\ IF ~gamepad
     THEN UNCHANGED <<world, panicked>>
     ELSE IF ~Gets(game.player, {"Player"}, {})
     THEN panicked' = "player_movement" /\ UNCHANGED world
     ELSE world' = PlayerMoved(world, game.player, left) /\ UNCHANGED panicked
  /\ UNCHANGED <<game, enemies, projectiles, timer, commands, next_entity,
                 gamepad, tick, phase, log, cycle>>

player_movement == \E left \in LeftStickValues : PlayerMovementWith(left)

ProjectileStep(heading) ==
  IF heading.nan THEN NaNVec
  ELSE Vec(RoundDiv(heading.x * PROJECTILE_SPEED, UNIT),
           RoundDiv(heading.y * PROJECTILE_SPEED, UNIT),
           RoundDiv(heading.z * PROJECTILE_SPEED, UNIT))

\* For comparison: projectiles that turn round as they move
ProjectilesMovedTurning(w, ps) ==
  [e \in DOMAIN w |->
     IF e \in Range(ps)
     THEN [w[e] EXCEPT !.translation = VAdd(@, ProjectileStep(w[e].heading)),
                       !.spin = @ + PROJECTILE_SPEED,
                       !.heading = VSub(ZERO, @)]
     ELSE w[e]]

ProjectilesMoved(w, ps) ==
  [e \in DOMAIN w |->
     IF e \in Range(ps)
     THEN [w[e] EXCEPT !.translation = VAdd(@, ProjectileStep(w[e].heading)),
                       !.spin = @ + PROJECTILE_SPEED]
     ELSE w[e]]

projectile_movement ==
  /\ Runnable("projectile_movement")
  /\ done' = done \cup {"projectile_movement"}
  /\ world' = ProjectilesMoved(world, projectiles)
  /\ UNCHANGED <<game, enemies, projectiles, timer, commands, next_entity,
                 gamepad, tick, phase, panicked, log, cycle>>

camera_movement ==
  /\ Runnable("camera_movement")
  /\ done' = done \cup {"camera_movement"}
  /\ IF ~Gets(game.camera, {}, {})
     THEN panicked' = "camera_movement" /\ UNCHANGED world
     ELSE /\ world' = [world EXCEPT ![game.camera].translation.z =
                                       @ - CAMERA_SPEED]
          /\ UNCHANGED panicked
  /\ UNCHANGED <<game, enemies, projectiles, timer, commands, next_entity,
                 gamepad, tick, phase, log, cycle>>

\* For comparison: a loop that stops at its first hit
HitCommandsFirstHit(w, ps, es) ==
  LET hits == {pe \in (DOMAIN ps) \X (DOMAIN es) :
                 WithinHit(w[ps[pe[1]]].translation, w[es[pe[2]]].translation)}
  IN IF hits = {} THEN <<>>
     ELSE LET first == CHOOSE h \in hits : \A k \in hits :
                         \/ h[1] < k[1]
                         \/ h[1] = k[1] /\ h[2] <= k[2]
          IN <<DespawnRecursive(ps[first[1]]), DespawnRecursive(es[first[2]])>>

\* For comparison: a loop that also removes every projectile it meets
HitCommandsSweeping(w, ps, es) ==
  [i \in DOMAIN ps |-> DespawnRecursive(ps[i])]

\* the commands of the nested loop, in the order the loop issues them
RECURSIVE HitCommands(_, _, _)
HitCommands(w, ps, es) ==
  IF ps = <<>> THEN <<>>
  ELSE LET p == Head(ps)
           hit == SelectSeq(es, LAMBDA e :
                    WithinHit(w[p].translation, w[e].translation))
           RECURSIVE Pairs(_)
           Pairs(hs) ==
             IF hs = <<>> THEN <<>>
             ELSE <<DespawnRecursive(p), DespawnRecursive(Head(hs))>>
                    \o Pairs(Tail(hs))
       IN Pairs(hit) \o HitCommands(w, Tail(ps), es)

\* the enemies some projectile is within HIT_THRESHOLD of
HitEnemies(w, ps, es) ==
  {e \in Range(es) : \E p \in Range(ps) :
     WithinHit(w[p].translation, w[e].translation)}

AimAfterHit(aiming_at, hit) ==
  IF IsSome(aiming_at) /\ Unwrap(aiming_at) \in hit THEN None ELSE aiming_at

projectile_hit ==
  /\ Runnable("projectile_hit")
  /\ done' = done \cup {"projectile_hit"}
  /\ game' = [game EXCEPT !.aiming_at =
                AimAfterHit(@, HitEnemies(world, projectiles, enemies))]
  /\ commands' = [commands EXCEPT !["projectile_hit"] =
                    HitCommands(world, projectiles, enemies)]
  /\ log' = [log EXCEPT !.cleared =
               IF game'.aiming_at # game.aiming_at THEN game.aiming_at ELSE @]
  /\ UNCHANGED <<world, enemies, projectiles, timer, next_entity, gamepad,
                 tick, phase, panicked, cycle>>

\* For comparison: a timer that keeps counting on from a completed period
TimerTickNoRestart(t, delta) ==
  [elapsed |-> t.elapsed + delta,
   finished |-> t.elapsed + delta >= SPAWN_PERIOD,
   times_finished_this_tick |-> (t.elapsed + delta) \div SPAWN_PERIOD]

\* Timer::tick of a repeating timer: the time past the last completed
\* period is kept, and the periods completed by this tick are counted.
TimerTick(t, delta) ==
  LET elapsed == t.elapsed + delta
      times == elapsed \div SPAWN_PERIOD
  IN IF elapsed >= SPAWN_PERIOD
     THEN [elapsed |-> elapsed - SPAWN_PERIOD * times, finished |-> TRUE,
           times_finished_this_tick |-> times]
     ELSE [elapsed |-> elapsed, finished |-> FALSE,
           times_finished_this_tick |-> 0]

SpawnEnemyCommands(enemy, x_position, camera_z) ==
  <<Spawn(enemy, "SceneBundle", Vec(x_position, 0, camera_z - SPAWN_DEPTH)),
    Insert(enemy, "Enemy", ZERO)>>

\* spawn_enemy on a tick whose frame took `delta` and whose random draw
\* gives `x_position`
SpawnEnemyWith(delta, x_position) ==
  /\ Runnable("spawn_enemy")
  /\ done' = done \cup {"spawn_enemy"}
  /\ timer' = TimerTick(timer, delta)
  /\ IF ~TimerTick(timer, delta).finished
     THEN UNCHANGED <<commands, next_entity, panicked>>
     ELSE IF game.enemies = <<>> \/ ~Gets(game.camera, {}, {})
     THEN panicked' = "spawn_enemy" /\ UNCHANGED <<commands, next_entity>>
     ELSE /\ commands' = [commands EXCEPT !["spawn_enemy"] =
               SpawnEnemyCommands(next_entity, x_position,
                                  world[game.camera].translation.z)]
          /\ next_entity' = next_entity + 1
          /\ UNCHANGED panicked
  /\ log' = [log EXCEPT
               !.periods = @ + timer'.times_finished_this_tick,
               !.completions = @ + (IF timer'.finished THEN 1 ELSE 0),
               !.spawned = @ + Len(commands'["spawn_enemy"]) \div 2]
  /\ UNCHANGED <<game, world, enemies, projectiles, gamepad, tick, phase,
                 cycle>>

spawn_enemy ==
  \E delta \in Deltas, x_position \in SpawnXs :
    SpawnEnemyWith(delta, x_position)

EnemiesMoved(w, es, player_position) ==
  [e \in DOMAIN w |->
     IF e \in Range(es)
     THEN [w[e] EXCEPT !.translation =
             VAdd(@, NormalizeTimes(VSub(player_position, @), ENEMY_SPEED))]
     ELSE w[e]]

enemy_movement ==
  /\ Runnable("enemy_movement")
  /\ done' = done \cup {"enemy_movement"}
  /\ IF ~Gets(game.player, {"Player"}, {"Enemy"})
     THEN panicked' = "enemy_movement" /\ UNCHANGED world
     ELSE /\ world' = EnemiesMoved(world, enemies,
                                   world[game.player].translation)
          /\ UNCHANGED panicked
  /\ UNCHANGED <<game, enemies, projectiles, timer, commands, next_entity,
                 gamepad, tick, phase, log, cycle>>

\* transforms.get(enemy).unwrap() of the entity aiming_at names, then
\* get_mut(game.spud_gun).unwrap(); the mount's orientation, which nothing
\* else reads, is not kept
WeaponMovementPanics(g, w) ==
  \/ IsSome(g.aiming_at) /\ Unwrap(g.aiming_at) \notin DOMAIN w
  \/ g.spud_gun \notin DOMAIN w

weapon_movement ==
  /\ Runnable("weapon_movement")
  /\ done' = done \cup {"weapon_movement"}
  /\ panicked' = IF WeaponMovementPanics(game, world)
                 THEN "weapon_movement" ELSE panicked
  /\ UNCHANGED <<game, world, enemies, projectiles, timer, commands,
                 next_entity, gamepad, tick, phase, log, cycle>>

\* For comparison: weapon_fire without its gamepad check
FiresWithoutGamepad(g, pad, pressed) ==
  /\ IsSome(g.projectile)
  /\ pressed
  /\ IsSome(g.aiming_at)

\* whether weapon_fire gets as far as reading the transforms
Fires(g, pad, pressed) ==
  /\ IsSome(g.projectile)
  /\ pad
  /\ pressed
  /\ IsSome(g.aiming_at)

WeaponFireCommands(projectile, origin, target) ==
  <<Spawn(projectile, "SceneBundle", origin),
    Insert(projectile, "Projectile", NormalizeTimes(VSub(target, origin), UNIT))>>

\* weapon_fire on a tick where just_pressed(RightTrigger2) is `pressed`
WeaponFireWith(pressed) ==
  /\ Runnable("weapon_fire")
  /\ done' = done \cup {"weapon_fire"}
  /\ IF ~Fires(game, gamepad, pressed)
     THEN UNCHANGED <<commands, next_entity, panicked>>
     ELSE IF \/ game.spud_gun \notin DOMAIN world
             \/ Unwrap(game.aiming_at) \notin DOMAIN world
     THEN panicked' = "weapon_fire" /\ UNCHANGED <<commands, next_entity>>
     ELSE /\ commands' = [commands EXCEPT !["weapon_fire"] =
               WeaponFireCommands(next_entity, world[game.spud_gun].global,
                                  world[Unwrap(game.aiming_at)].global)]
          /\ next_entity' = next_entity + 1
          /\ UNCHANGED panicked
  /\ UNCHANGED <<game, world, enemies, projectiles, timer, gamepad, tick,
                 phase, log, cycle>>

weapon_fire == \E pressed \in BOOLEAN : WeaponFireWith(pressed)

\* what player_aim makes of the state when the right stick reads
\* `right_stick_x`
AimEffect(right_stick_x) ==
  IF ~gamepad
  THEN log' = [log EXCEPT !.aim = "no_gamepad"] /\ UNCHANGED <<game, panicked>>
  ELSE LET r == PlayerAim(game, right_stick_x, EnemyList(world, enemies))
       IN /\ game' = [game EXCEPT !.aiming_at = r.aiming_at,
                                  !.is_aiming = r.is_aiming]
          /\ log' = [log EXCEPT !.aim = r.branch]
          /\ panicked' = IF r.branch = "panic" THEN "player_aim" ELSE panicked

PlayerAimWith(right_stick_x) ==
  /\ Runnable("player_aim")
  /\ done' = done \cup {"player_aim"}
  /\ AimEffect(right_stick_x)
  /\ UNCHANGED <<world, enemies, projectiles, timer, commands, next_entity,
                 gamepad, tick, phase, cycle>>

player_aim ==
  \E right_stick_x \in RightStickValues : PlayerAimWith(right_stick_x)

\* The stage ends: the queues are applied, transforms are propagated, and
\* the next tick may find a gamepad connected or not.
EndTick ==
  /\ phase = "update"
  /\ panicked = ""
  /\ done = Systems
  /\ LET st == ApplyBuffers(Storage(world, enemies, projectiles, ""),
                            SystemOrder, commands)
     IN /\ world' = Propagate(st.world)
        /\ enemies' = st.enemies
        /\ projectiles' = st.projectiles
        /\ panicked' = st.panic
  /\ commands' = NoCommands
  /\ done' = {}
  /\ tick' = tick + 1
  /\ log' = [log EXCEPT !.aim = "idle", !.cleared = None]
  /\ gamepad' \in BOOLEAN
  /\ UNCHANGED <<game, timer, next_entity, phase, cycle>>

\* ------------------------------------------------------------ initial states

\* Game after the startup systems have run in the order of main():
\* setup_camera, setup_models, setup_lights.
GameAfterSetup ==
  [player |-> 3, spud_gun |-> 1, environment |-> 2, camera |-> 0,
   enemies |-> <<"beet.glb#Scene0">>, aiming_at |-> None, is_aiming |-> FALSE,
   projectile |-> Some("pumpkinBasic.glb#Scene0")]

\* The entities of the startup systems.  setup_models inserts Weapon into
\* game.player while that still is Entity::from_bits(0), here the camera.
WorldAfterSetup ==
  Propagate(
    (0 :> Entity({"Camera3dBundle", "Weapon"}, Vec(0, 2500, 2000), ZERO, None))
    @@ (1 :> Entity({"SceneBundle"}, Vec(70, 250, 0), ZERO, Some(3)))
    @@ (2 :> Entity({"SceneBundle"}, ZERO, ZERO, None))
    @@ (3 :> Entity({"SceneBundle", "Player"}, ZERO, ZERO, None))
    @@ (4 :> Entity({"DirectionalLightBundle"}, ZERO, ZERO, None)))

TimerAtRest ==
  [elapsed |-> 0, finished |-> FALSE, times_finished_this_tick |-> 0]

CycleIdle ==
  [direction |-> 0, start |-> None, presses |-> 0, held |-> FALSE,
   holds |-> 0, changes |-> 0, visited |-> <<>>]

\* A shot in flight: fired from the mount at the place `target` and moved
\* `steps` times by projectile_movement since.
RECURSIVE Flown(_, _, _)
Flown(translation, heading, steps) ==
  IF steps = 0 THEN translation
  ELSE Flown(VAdd(translation, ProjectileStep(heading)), heading, steps - 1)

Shot(target, steps) == [target |-> target, steps |-> steps]

\* Situations of a game under way: the enemies' places in iteration order,
\* the shots in flight and the time the spawn timer has counted.
Situations ==
  { \* nothing spawned yet
    [enemies |-> <<>>, shots |-> <<>>, elapsed |-> 0],
    \* a shot that reaches its enemy once it has moved in this tick
    [enemies |-> <<Vec(70, 0, -450), Vec(-400, 0, -600)>>,
     shots |-> <<Shot(Vec(70, 0, -450), 8)>>, elapsed |-> 1],
    \* a shot within the threshold of two enemies
    [enemies |-> <<Vec(110, 0, -450), Vec(30, 0, -450)>>,
     shots |-> <<Shot(Vec(70, 0, -450), 9)>>, elapsed |-> 2],
    \* the same, met in the other iteration order
    [enemies |-> <<Vec(30, 0, -450), Vec(110, 0, -450)>>,
     shots |-> <<Shot(Vec(70, 0, -450), 9)>>, elapsed |-> 1],
    \* two shots within the threshold of one enemy
    [enemies |-> <<Vec(70, 0, -450)>>,
     shots |-> <<Shot(Vec(70, 0, -450), 9), Shot(Vec(70, 0, -450), 10)>>,
     elapsed |-> 2],
    \* the same, met in the other iteration order
    [enemies |-> <<Vec(70, 0, -450)>>,
     shots |-> <<Shot(Vec(70, 0, -450), 10), Shot(Vec(70, 0, -450), 9)>>,
     elapsed |-> 0],
    \* three enemies, two of them level, and no shot
    [enemies |-> <<Vec(0, 0, -800), Vec(-300, 0, -600), Vec(0, 0, -700)>>,
     shots |-> <<>>, elapsed |-> 1] }

FirstEnemy == 5

WorldOf(sit) ==
  LET w0 == WorldAfterSetup
      ne == Len(sit.enemies)
      origin == w0[1].global
      enemy(i) == Entity({"SceneBundle", "Enemy"}, sit.enemies[i], ZERO, None)
      shot(i) ==
        LET heading == NormalizeTimes(VSub(sit.shots[i].target, origin), UNIT)
        IN [Entity({"SceneBundle", "Projectile"},
                   Flown(origin, heading, sit.shots[i].steps), heading, None)
              EXCEPT !.spin = sit.shots[i].steps * PROJECTILE_SPEED]
  IN Propagate(
       [e \in FirstEnemy..(FirstEnemy + ne - 1) |-> enemy(e - FirstEnemy + 1)]
       @@ [e \in (FirstEnemy + ne)..(FirstEnemy + ne + Len(sit.shots) - 1) |->
             shot(e - FirstEnemy - ne + 1)]
       @@ w0)

Ids(from, n) == [i \in 1..n |-> from + i - 1]

\* A tick boundary of a game under way.
Init ==
  \E sit \in Situations :
    LET ne == Len(sit.enemies)
        ns == Len(sit.shots)
    IN /\ world = WorldOf(sit)
       /\ enemies = Ids(FirstEnemy, ne)
       /\ projectiles = Ids(FirstEnemy + ne, ns)
       /\ next_entity = FirstEnemy + ne + ns
       /\ \E target \in {None} \cup {Some(enemies[i]) : i \in 1..ne},
             latched \in BOOLEAN :
            game = [GameAfterSetup EXCEPT !.aiming_at = target,
                                          !.is_aiming = latched]
       /\ timer = [TimerAtRest EXCEPT !.elapsed = sit.elapsed]
       /\ commands = NoCommands
       /\ gamepad \in BOOLEAN
       /\ done = {}
       /\ tick = 0
       /\ phase = "update"
       /\ panicked = ""
       /\ log = LogIdle
       /\ cycle = CycleIdle

Next ==
  \/ player_movement
  \/ spawn_enemy
  \/ enemy_movement
  \/ weapon_movement
  \/ camera_movement
  \/ projectile_movement
  \/ projectile_hit
  \/ weapon_fire
  \/ player_aim
  \/ EndTick

Spec == Init /\ [][Next]_vars

\* ------------------------------------------------------------ the tick after

\* The tick boundary one tick on from a situation: the systems run in the
\* order of the add_system calls, a gamepad connected, the left stick at
\* rest, the fire button not pressed, the right stick reading
\* `right_stick_x`, a frame shorter than the spawn period and the random
\* draw `x_position`.
OneTickOn(sit, target, right_stick_x, x_position) ==
  LET es == Ids(FirstEnemy, Len(sit.enemies))
      ps == Ids(FirstEnemy + Len(sit.enemies), Len(sit.shots))
      next == FirstEnemy + Len(sit.enemies) + Len(sit.shots)
      g0 == [GameAfterSetup EXCEPT !.aiming_at = target]
      w0 == WorldOf(sit)
      delta == CHOOSE d \in Deltas : d < SPAWN_PERIOD
      t1 == TimerTick([TimerAtRest EXCEPT !.elapsed = sit.elapsed], delta)
      spawn == IF t1.finished
               THEN SpawnEnemyCommands(next, x_position,
                                       w0[g0.camera].translation.z)
               ELSE <<>>
      w1 == EnemiesMoved(PlayerMoved(w0, g0.player, <<0, 0>>), es,
                         w0[g0.player].translation)
      w2 == [w1 EXCEPT ![g0.camera].translation.z = @ - CAMERA_SPEED]
      w3 == ProjectilesMoved(w2, ps)
      g1 == [g0 EXCEPT !.aiming_at =
               AimAfterHit(@, HitEnemies(w3, ps, es))]
      r == PlayerAim(g1, right_stick_x, EnemyList(w3, es))
      st == ApplyBuffers(Storage(w3, es, ps, ""), SystemOrder,
              [NoCommands EXCEPT !["spawn_enemy"] = spawn,
                                 !["projectile_hit"] = HitCommands(w3, ps, es)])
  IN [world |-> Propagate(st.world), enemies |-> st.enemies,
      projectiles |-> st.projectiles,
      game |-> [g1 EXCEPT !.aiming_at = r.aiming_at,
                          !.is_aiming = r.is_aiming],
      timer |-> t1,
      next_entity |-> next + Len(spawn) \div 2,
      log |-> [LogIdle EXCEPT
                 !.periods = t1.times_finished_this_tick,
                 !.completions = Len(spawn) \div 2,
                 !.spawned = Len(spawn) \div 2]]

\* A game one tick on from a situation with a shot in flight.
InitTickAfter ==
  \E sit \in {x \in Situations : x.shots # <<>>},
     right_stick_x \in {0, UNIT} :
    \E target \in {None} \cup
                   {Some(FirstEnemy + i - 1) : i \in DOMAIN sit.enemies} :
      LET on == OneTickOn(sit, target, right_stick_x, 0)
      IN /\ world = on.world
         /\ enemies = on.enemies
         /\ projectiles = on.projectiles
         /\ game = on.game
         /\ timer = on.timer
         /\ next_entity = on.next_entity
         /\ log = on.log
         /\ commands = NoCommands
         /\ gamepad \in BOOLEAN
         /\ done = {}
         /\ tick = 0
         /\ phase = "update"
         /\ panicked = ""
         /\ cycle = CycleIdle

SpecTickAfter == InitTickAfter /\ [][Next]_vars

\* ------------------------------------------------------------ contact

\* Situations in which an enemy is one step of enemy_movement short of the
\* player: alone, and with a second enemy further off.
ContactSituations ==
  { [enemies |-> <<Vec(0, 0, -ENEMY_SPEED)>>, shots |-> <<>>, elapsed |-> 0],
    [enemies |-> <<Vec(0, 0, -ENEMY_SPEED), Vec(-300, 0, -600)>>,
     shots |-> <<>>, elapsed |-> 0] }

\* A game in which an enemy has just reached the player.
InitContact ==
  \E sit \in ContactSituations, right_stick_x \in {0, UNIT} :
    \E target \in {None} \cup
                   {Some(FirstEnemy + i - 1) : i \in DOMAIN sit.enemies} :
      LET on == OneTickOn(sit, target, right_stick_x, 0)
      IN /\ world = on.world
         /\ enemies = on.enemies
         /\ projectiles = on.projectiles
         /\ game = on.game
         /\ timer = on.timer
         /\ next_entity = on.next_entity
         /\ log = on.log
         /\ commands = NoCommands
         /\ gamepad \in BOOLEAN
         /\ done = {}
         /\ tick = 0
         /\ phase = "update"
         /\ panicked = ""
         /\ cycle = CycleIdle

SpecContact == InitContact /\ [][Next]_vars

\* ------------------------------------------------------------ startup

\* impl Default for Game: the handles are placeholders until setup writes
\* them
GameDefault ==
  [player |-> 0, spud_gun |-> 1, environment |-> 2, camera |-> 3,
   enemies |-> <<>>, aiming_at |-> None, is_aiming |-> FALSE,
   projectile |-> None]

\* The app as App::new() .. .run() leaves it before the startup stage.
InitStartup ==
  /\ game = GameDefault
  /\ world = <<>>
  /\ enemies = <<>>
  /\ projectiles = <<>>
  /\ next_entity = 0
  /\ timer = TimerAtRest
  /\ commands = NoCommands
  /\ gamepad \in BOOLEAN
  /\ done = {}
  /\ tick = 0
  /\ phase = "startup"
  /\ panicked = ""
  /\ log = LogIdle
  /\ cycle = CycleIdle

\* A startup system runs once, in no particular order.
StartupRunnable(s) ==
  /\ phase = "startup"
  /\ s \notin done

setup_camera ==
  /\ StartupRunnable("setup_camera")
  /\ done' = done \cup {"setup_camera"}
  /\ game' = [game EXCEPT !.camera = next_entity]
  /\ commands' = [commands EXCEPT !["setup_camera"] =
       <<Spawn(next_entity, "Camera3dBundle", Vec(0, 2500, 2000))>>]
  /\ next_entity' = next_entity + 1
  /\ UNCHANGED <<world, enemies, projectiles, timer, gamepad, tick, phase,
                 panicked, log, cycle>>

\* commands.entity(game.player) is reached after the mount's id has been
\* reserved, so an entity of index 0 exists or is reserved and the call
\* does not panic; game.player still is the placeholder there.
SetupModelsCommands(spud_gun, placeholder, environment, player) ==
  <<Spawn(spud_gun, "SceneBundle", Vec(70, 250, 0)),
    Insert(placeholder, "Weapon", ZERO),
    Spawn(environment, "SceneBundle", ZERO),
    Spawn(player, "SceneBundle", ZERO),
    AddChild(player, spud_gun),
    Insert(player, "Player", ZERO)>>

setup_models ==
  /\ StartupRunnable("setup_models")
  /\ done' = done \cup {"setup_models"}
  /\ game' = [game EXCEPT !.spud_gun = next_entity,
                          !.environment = next_entity + 1,
                          !.player = next_entity + 2,
                          !.projectile = Some("pumpkinBasic.glb#Scene0"),
                          !.enemies = <<"beet.glb#Scene0">>]
  /\ commands' = [commands EXCEPT !["setup_models"] =
       SetupModelsCommands(next_entity, game.player, next_entity + 1,
                           next_entity + 2)]
  /\ next_entity' = next_entity + 3
  /\ UNCHANGED <<world, enemies, projectiles, timer, gamepad, tick, phase,
                 panicked, log, cycle>>

setup_lights ==
  /\ StartupRunnable("setup_lights")
  /\ done' = done \cup {"setup_lights"}
  /\ commands' = [commands EXCEPT !["setup_lights"] =
       <<Spawn(next_entity, "DirectionalLightBundle", ZERO)>>]
  /\ next_entity' = next_entity + 1
  /\ UNCHANGED <<game, world, enemies, projectiles, timer, gamepad, tick,
                 phase, panicked, log, cycle>>

\* The startup stage ends: its queues are applied and the update stage
\* takes over.
EndStartup ==
  /\ phase = "startup"
  /\ done = StartupSystems
  /\ LET st == ApplyBuffers(Storage(world, enemies, projectiles, ""),
                            StartupOrder, commands)
     IN /\ world' = Propagate(st.world)
        /\ enemies' = st.enemies
        /\ projectiles' = st.projectiles
        /\ panicked' = st.panic
  /\ commands' = NoCommands
  /\ done' = {}
  /\ phase' = "update"
  /\ UNCHANGED <<game, timer, next_entity, gamepad, tick, log, cycle>>

NextStartup ==
  \/ setup_camera
  \/ setup_models
  \/ setup_lights
  \/ EndStartup
  \/ Next

SpecStartup == InitStartup /\ [][NextStartup]_vars

\* ------------------------------------------------------------ aim cycling

\* The aim stick is pressed in one direction, held and let go, tick after
\* tick, while a gamepad is connected and the enemies keep their lateral
\* places: of each tick only player_aim matters.

\* lateral places of the enemies, in iteration order
Lines ==
  { <<0>>, <<-300, 200>>, <<200, -300>>, <<0, -300, 0>>, <<400, -200, 100>>,
    <<-100, 0, 300>> }

LineUp(line) ==
  [enemies |-> [i \in DOMAIN line |-> Vec(line[i], 0, -800)], shots |-> <<>>,
   elapsed |-> 0]

InitCycle ==
  \E line \in Lines, direction \in {-1, 1} :
    /\ world = WorldOf(LineUp(line))
    /\ enemies = Ids(FirstEnemy, Len(line))
    /\ projectiles = <<>>
    /\ next_entity = FirstEnemy + Len(line)
    /\ \E target \in {None} \cup {Some(enemies[i]) : i \in DOMAIN line} :
         /\ game = [GameAfterSetup EXCEPT !.aiming_at = target]
         /\ cycle = [CycleIdle EXCEPT !.direction = direction,
                                      !.start = target]
    /\ timer = TimerAtRest
    /\ commands = NoCommands
    /\ gamepad = TRUE
    /\ done = {}
    /\ tick = 0
    /\ phase = "update"
    /\ panicked = ""
    /\ log = LogIdle

\* player_aim of one tick of the cycling, the right stick reading
\* `right_stick_x`
AimTick(right_stick_x) ==
  /\ cycle.direction # 0
  /\ panicked = ""
  /\ AimEffect(right_stick_x)
  /\ tick' = tick + 1
  /\ UNCHANGED <<world, enemies, projectiles, timer, commands, next_entity,
                 gamepad, done, phase>>

Changed == IF game'.aiming_at # game.aiming_at THEN 1 ELSE 0

\* the first tick of a deflection: the stick was at rest the tick before
Press ==
  /\ ~cycle.held
  /\ cycle.presses < MaxPresses
  /\ \E x \in {cycle.direction * AIM_DEAD_ZONE, cycle.direction * UNIT} :
       AimTick(x)
  /\ cycle' = [cycle EXCEPT !.held = TRUE, !.presses = @ + 1, !.holds = 0,
                            !.changes = Changed,
                            !.visited = Append(@, game'.aiming_at)]

\* a later tick of the same deflection
Hold ==
  /\ cycle.held
  /\ cycle.holds < MaxHolds
  /\ \E x \in {-UNIT, -AIM_DEAD_ZONE, AIM_DEAD_ZONE, UNIT} : AimTick(x)
  /\ cycle' = [cycle EXCEPT !.holds = @ + 1, !.changes = @ + Changed]

\* the stick is back inside the dead zone
Release ==
  /\ cycle.held
  /\ \E x \in {1 - AIM_DEAD_ZONE, 0, AIM_DEAD_ZONE - 1} : AimTick(x)
  /\ cycle' = [cycle EXCEPT !.held = FALSE]

NextCycle ==
  \/ Press
  \/ Hold
  \/ Release

SpecCycle == InitCycle /\ [][NextCycle]_vars

\* ------------------------------------------------------------ lost target

\* player_aim given a game whose aiming_at may name an enemy that has been
\* destroyed: the enemy that was first in iteration order is gone, and the
\* stick is pressed, held and let go as in the cycling.
InitLostTarget ==
  \E line \in Lines, direction \in {-1, 1} :
    LET before == Storage(WorldOf(LineUp(<<0>> \o line)),
                          Ids(FirstEnemy, Len(line) + 1), <<>>, "")
        st == ApplyCommand(before, DespawnRecursive(FirstEnemy))
    IN /\ world = st.world
       /\ enemies = st.enemies
       /\ projectiles = <<>>
       /\ next_entity = FirstEnemy + Len(line) + 1
       /\ \E target \in {None} \cup
                          {Some(FirstEnemy + i) : i \in 0..Len(line)} :
            /\ game = [GameAfterSetup EXCEPT !.aiming_at = target]
            /\ cycle = [CycleIdle EXCEPT !.direction = direction,
                                         !.start = target]
       /\ timer = TimerAtRest
       /\ commands = NoCommands
       /\ gamepad = TRUE
       /\ done = {}
       /\ tick = 0
       /\ phase = "update"
       /\ panicked = ""
       /\ log = LogIdle

SpecLostTarget == InitLostTarget /\ [][NextCycle]_vars

\* ------------------------------------------------------------ empty field

\* A game whose field is empty when it begins: no enemy is live, the spawn
\* timer is at rest, a gamepad stays connected.  Of each tick player_aim,
\* spawn_enemy and the application of the queued spawn matter; `cycle`
\* follows the stick as in the cycling.  aiming_at is None or names an
\* enemy that is gone.
InitField ==
  LET before == Storage(WorldOf(LineUp(<<0>>)), Ids(FirstEnemy, 1), <<>>, "")
      st == ApplyCommand(before, DespawnRecursive(FirstEnemy))
  IN /\ world = st.world
     /\ enemies = st.enemies
     /\ projectiles = <<>>
     /\ next_entity = FirstEnemy + 1
     /\ \E target \in {None, Some(FirstEnemy)} :
          /\ game = [GameAfterSetup EXCEPT !.aiming_at = target]
          /\ cycle = [CycleIdle EXCEPT !.start = target]
     /\ timer = TimerAtRest
     /\ commands = NoCommands
     /\ gamepad = TRUE
     /\ done = {}
     /\ tick = 0
     /\ phase = "update"
     /\ panicked = ""
     /\ log = LogIdle

FieldSystems == {"player_aim", "spawn_enemy"}

FieldRunnable(s) ==
  /\ phase = "update"
  /\ panicked = ""
  /\ tick < MaxFieldTicks
  /\ s \notin done

\* player_aim of a tick, the right stick reading `right_stick_x`
FieldAimWith(right_stick_x) ==
  /\ FieldRunnable("player_aim")
  /\ done' = done \cup {"player_aim"}
  /\ AimEffect(right_stick_x)
  /\ cycle' =
       IF Abs(right_stick_x) < AIM_DEAD_ZONE
       THEN [cycle EXCEPT !.held = FALSE]
       ELSE IF cycle.held
       THEN [cycle EXCEPT !.holds = @ + 1, !.changes = @ + Changed]
       ELSE [cycle EXCEPT !.held = TRUE, !.presses = @ + 1, !.holds = 0,
                          !.changes = Changed,
                          !.visited = Append(@, game'.aiming_at)]
  /\ UNCHANGED <<world, enemies, projectiles, timer, commands, next_entity,
                 gamepad, tick, phase>>

FieldAim == \E right_stick_x \in RightStickValues : FieldAimWith(right_stick_x)

\* spawn_enemy of a tick
FieldSpawn ==
  \E delta \in Deltas, x_position \in SpawnXs :
    /\ FieldRunnable("spawn_enemy")
    /\ done' = done \cup {"spawn_enemy"}
    /\ timer' = TimerTick(timer, delta)
    /\ IF ~timer'.finished
       THEN UNCHANGED <<commands, next_entity, panicked>>
       ELSE IF game.enemies = <<>> \/ ~Gets(game.camera, {}, {})
       THEN panicked' = "spawn_enemy" /\ UNCHANGED <<commands, next_entity>>
       ELSE /\ commands' = [commands EXCEPT !["spawn_enemy"] =
                 SpawnEnemyCommands(next_entity, x_position,
                                    world[game.camera].translation.z)]
            /\ next_entity' = next_entity + 1
            /\ UNCHANGED panicked
    /\ log' = [log EXCEPT
                 !.periods = @ + timer'.times_finished_this_tick,
                 !.completions = @ + (IF timer'.finished THEN 1 ELSE 0),
                 !.spawned = @ + Len(commands'["spawn_enemy"]) \div 2]
    /\ UNCHANGED <<game, world, enemies, projectiles, gamepad, tick, phase,
                   cycle>>

\* the stage ends: the queued spawn is applied
FieldEndTick ==
  /\ phase = "update"
  /\ panicked = ""
  /\ done = FieldSystems
  /\ LET st == ApplyBuffers(Storage(world, enemies, projectiles, ""),
                            SystemOrder, commands)
     IN /\ world' = Propagate(st.world)
        /\ enemies' = st.enemies
        /\ projectiles' = st.projectiles
        /\ panicked' = st.panic
  /\ commands' = NoCommands
  /\ done' = {}
  /\ tick' = tick + 1
  /\ log' = [log EXCEPT !.aim = "idle", !.cleared = None]
  /\ UNCHANGED <<game, timer, next_entity, gamepad, phase, cycle>>

NextField ==
  \/ FieldAim
  \/ FieldSpawn
  \/ FieldEndTick

SpecField == InitField /\ [][NextField]_vars

\* ------------------------------------------------------------ claims

TickBoundary == phase = "update" /\ done = {}

\* the entities whose destruction projectile_hit has queued in this tick
DestroyedByHit ==
  {commands["projectile_hit"][i].entity :
     i \in DOMAIN commands["projectile_hit"]}

\* C1: at every tick boundary aiming_at is None or names a live entity
\* that carries the Enemy role.
C1_AimingAtIsLiveEnemy ==
  TickBoundary =>
    \/ game.aiming_at = None
    \/ Has(world, Unwrap(game.aiming_at), "Enemy")

\* C2: once projectile_hit has destroyed the enemy aiming_at named, no
\* state of that tick behind projectile_hit (what the systems that run
\* after it read) has aiming_at naming that enemy again.
C2_DestroyedTargetNeverObserved ==
  IsSome(log.cleared) => game.aiming_at # log.cleared

\* the places of the stick that count as a deflection
Deflections == {x \in RightStickValues : Abs(x) >= AIM_DEAD_ZONE}

\* the aim order: the live enemies by ascending x
AimOrder == SortByX(EnemyList(world, enemies))

\* the place of an entity in the aim order, counted from 1
PlaceInAimOrder(e) == CHOOSE i \in DOMAIN AimOrder : AimOrder[i].entity = e

\* the place the claim sends the aim to, from place i of n
PlaceAfter(i, n, right) ==
  IF right THEN (IF i = n THEN n ELSE i + 1) ELSE (IF i = 1 THEN 1 ELSE i - 1)

PairsWithinThreshold ==
  {pe \in Range(projectiles) \X Range(enemies) :
     WithinHit(world[pe[1]].translation, world[pe[2]].translation)}

\* C6: when projectile_hit runs, it queues the destruction of both entities
\* of every pair within HIT_THRESHOLD, whatever the iteration order and
\* however many pairs there are, and when the tick ends every entity so
\* queued is gone.
C6_EveryPairDestroyed ==
  [][ /\ projectile_hit =>
           \A pe \in PairsWithinThreshold :
             {DespawnRecursive(pe[1]), DespawnRecursive(pe[2])}
               \subseteq Range(commands'["projectile_hit"])
      /\ (EndTick /\ panicked' = "") =>
           \A e \in DestroyedByHit :
             /\ e \notin DOMAIN world'
             /\ e \notin Range(enemies') \cup Range(projectiles')
    ]_vars

\* projectile_hit has found more than one pair within the threshold
C6_SeveralHits ==
  /\ "projectile_hit" \in done
  /\ Len(commands["projectile_hit"]) >= 4

\* C8 as stated: the number of enemies spawned equals the number of timer
\* periods completed.
C8_SpawnedEqualsPeriods == log.spawned = log.periods

\* C8: spawn_enemy creates no enemy on a tick on which the timer completes
\* no period and exactly one, carrying the Enemy role, on a tick on which
\* it completes one or more; the timer keeps only the time past the last
\* completed period; over a run the number of enemies spawned is the
\* number of ticks that completed a period.
C8_OneEnemyPerCompletingTick ==
  [][ /\ log'.spawned = log'.completions
      /\ \A delta \in Deltas, x_position \in SpawnXs :
           (SpawnEnemyWith(delta, x_position) /\ panicked' = "") =>
             /\ timer'.elapsed = (timer.elapsed + delta) % SPAWN_PERIOD
             /\ log'.completions = log.completions +
                  (IF timer.elapsed + delta >= SPAWN_PERIOD THEN 1 ELSE 0)
             /\ IF timer.elapsed + delta < SPAWN_PERIOD
                THEN /\ commands'["spawn_enemy"] = <<>>
                     /\ next_entity' = next_entity
                ELSE /\ next_entity' = next_entity + 1
                     /\ Len(commands'["spawn_enemy"]) = 2
                     /\ commands'["spawn_enemy"][1].op = "spawn"
                     /\ commands'["spawn_enemy"][1].entity = next_entity
                     /\ commands'["spawn_enemy"][2] =
                          Insert(next_entity, "Enemy", ZERO)
    ]_vars

\* a frame that spans more than one period has spawned its one enemy
C8_StalledFrameSpawnsOne ==
  /\ "spawn_enemy" \in done
  /\ timer.times_finished_this_tick >= 2
  /\ Len(commands["spawn_enemy"]) = 2

\* C3: while the aim stick stays beyond the dead zone over consecutive
\* ticks, player_aim changes aiming_at at most once, on the first of these
\* ticks only; on every later tick of the hold it leaves aiming_at and the
\* latch as they are.
C3_HeldStickAimsOnce ==
  [][ /\ cycle'.changes <= 1
      /\ Hold => /\ game'.aiming_at = game.aiming_at
                 /\ game'.is_aiming = game.is_aiming
                 /\ game.is_aiming
    ]_vars

\* the stick has been held for two ticks after a press that moved the aim
C3_HeldAfterAiming ==
  /\ cycle.held
  /\ cycle.holds >= 2
  /\ cycle.changes = 1

Carrying(comp) == {e \in DOMAIN world : comp \in world[e].components}

\* C9: once the startup systems have run, exactly one live entity carries
\* the Player role and exactly one the Weapon role, and the Weapon entity
\* is the mount game.spud_gun names and a child of the Player entity.
C9_OnePlayerOneWeaponOnTheMount ==
  phase = "update" =>
    /\ Cardinality(Carrying("Player")) = 1
    /\ Carrying("Weapon") = {game.spud_gun}
    /\ game.spud_gun \in DOMAIN world
    /\ world[game.spud_gun].parent \in {Some(p) : p \in Carrying("Player")}

\* C10: weapon_movement and weapon_fire never abort the app, also when
\* aiming_at names an entity that exists no longer.
C10_WeaponSystemsNeverAbort ==
  panicked \notin {"weapon_movement", "weapon_fire"}

\* C7: a press of the fire button creates one projectile, at the mount's
\* world position and heading for the target, exactly when a projectile
\* template is loaded and aiming_at is Some; otherwise it creates nothing.
C7_PressFiresIffTemplateAndTarget ==
  [][ WeaponFireWith(TRUE) /\ gamepad =>
        IF IsSome(game.projectile) /\ IsSome(game.aiming_at)
        THEN /\ Len(commands'["weapon_fire"]) = 2
             /\ commands'["weapon_fire"][1] =
                  Spawn(next_entity, "SceneBundle", world[game.spud_gun].global)
             /\ commands'["weapon_fire"][2].op = "insert"
             /\ commands'["weapon_fire"][2].component = "Projectile"
        ELSE commands'["weapon_fire"] = <<>>
    ]_vars


\* the systems that move something
MovementSystems ==
  {"player_movement", "enemy_movement", "projectile_movement",
   "camera_movement"}

\* C11: in every tick projectile_hit runs after the movement systems of that
\* tick: when it has run, player_movement, enemy_movement,
\* projectile_movement and camera_movement have run.
C11_HitRunsAfterMovement ==
  "projectile_hit" \in done => MovementSystems \subseteq done


\* the live entities that carry the Projectile component
LiveProjectiles == {e \in DOMAIN world : "Projectile" \in world[e].components}

\* C12: the heading of a projectile stays what it was at creation through
\* every step, also when aiming_at changes or its target is destroyed, and
\* projectile_movement changes of a projectile only its position, by
\* heading * PROJECTILE_SPEED, and its spin, and changes nothing else.
C12_HeadingFixedAtCreation ==
  [][ /\ \A e \in LiveProjectiles \cap DOMAIN world' :
           world'[e].heading = world[e].heading
      /\ projectile_movement =>
           /\ DOMAIN world' = DOMAIN world
           /\ \A e \in DOMAIN world :
                IF e \in LiveProjectiles
                THEN world'[e] =
                       [world[e] EXCEPT
                          !.translation =
                             VAdd(@, ProjectileStep(world[e].heading)),
                          !.spin = @ + PROJECTILE_SPEED]
                ELSE world'[e] = world[e]
    ]_vars

\* a projectile has moved in a tick in which the aim went to another enemy
C12_MovedWhileAimChanged ==
  /\ "projectile_movement" \in done
  /\ LiveProjectiles # {}
  /\ log.aim \in {"first_target", "next_target"}


\* C13: on a tick without a gamepad player_movement, weapon_fire and
\* player_aim each leave the state as it is (the player's position,
\* aiming_at, the latch, the live entities, the queued commands) and none
\* of them panics.
C13_NoGamepadNoEffect ==
  [][ ( /\ ~gamepad
        /\ \/ \E left \in LeftStickValues : PlayerMovementWith(left)
           \/ \E pressed \in BOOLEAN : WeaponFireWith(pressed)
           \/ \E x \in RightStickValues : PlayerAimWith(x) )
      => UNCHANGED <<game, world, enemies, projectiles, timer, commands,
                     next_entity, panicked>>
    ]_vars

\* the three systems have run without a gamepad while a target was selected
C13_RanWithoutGamepad ==
  /\ ~gamepad
  /\ {"player_movement", "weapon_fire", "player_aim"} \subseteq done
  /\ IsSome(game.aiming_at)
  /\ panicked = ""


\* C14: no undefined (not-a-number) value is written into a position or a
\* heading: an enemy that stands where the player stands keeps a defined
\* position through enemy_movement, and no projectile gets an undefined
\* heading.
C14_NoUndefinedPositionOrHeading ==
  \A e \in DOMAIN world :
    /\ ~world[e].translation.nan
    /\ ~world[e].heading.nan


\* the paths of player_aim that run the cycling step
CyclingPaths ==
  {"no_enemies", "first_target", "not_found", "at_end", "next_target"}

\* C15: on a tick with the stick inside the dead zone player_aim clears the
\* latch and leaves aiming_at as it is; a deflection on a tick that follows
\* a tick inside the dead zone is a new edge, whatever came before: the
\* latch is set and the cycling step runs.
C15_DeadZoneRearms ==
  [][ /\ Release => /\ ~game'.is_aiming
                    /\ game'.aiming_at = game.aiming_at
                    /\ log'.aim = "dead_zone"
      /\ Press => /\ ~game.is_aiming
                  /\ game'.is_aiming
                  /\ log'.aim \in CyclingPaths
    ]_vars

\* the stick has been pressed again after it was held and let go
C15_PressedAfterRelease ==
  /\ cycle.presses >= 2
  /\ cycle.held
  /\ cycle.holds = 0
  /\ game.is_aiming


\* aiming_at names an entity that is not among the live enemies
TargetLost ==
  /\ IsSome(game.aiming_at)
  /\ Unwrap(game.aiming_at) \notin Range(enemies)

\* C16: an unlatched deflection with aiming_at = Some(e), a live enemy and
\* e not among the live enemies sets aiming_at to None and the latch, and
\* selects no target: while the stick stays deflected aiming_at stays None.
C16_LostTargetIsCleared ==
  [][ /\ (Press /\ TargetLost /\ enemies # <<>>) =>
           /\ game'.aiming_at = None
           /\ game'.is_aiming
      /\ (Hold /\ game.aiming_at = None) => game'.aiming_at = None
    ]_vars

\* the press that found its target gone has been held on
C16_ClearedAndHeld ==
  /\ log.aim = "latched"
  /\ IsSome(cycle.start)
  /\ Unwrap(cycle.start) \notin Range(enemies)
  /\ cycle.presses = 1
  /\ game.aiming_at = None


\* the entities of the pairs within HIT_THRESHOLD
EntitiesWithinThreshold ==
  {pe[1] : pe \in PairsWithinThreshold} \cup {pe[2] : pe \in PairsWithinThreshold}

\* the despawns queued by any system
QueuedDespawns(cmds) ==
  {c \in UNION {Range(cmds[s]) : s \in DOMAIN cmds} :
     c.op = "despawn_recursive"}

\* C17: an entity is destroyed only through projectile_hit, and only an
\* enemy or a projectile that was within HIT_THRESHOLD of a live entity of
\* the other kind when projectile_hit ran: no other system queues a
\* destruction, every entity that leaves the world was queued by
\* projectile_hit in that tick, a projectile or enemy that was not stays
\* live, and the Player, the mount and the camera are never destroyed.
C17_OnlyHitsDestroy ==
  [][ /\ projectile_hit =>
           {c.entity : c \in Range(commands'["projectile_hit"])}
             \subseteq EntitiesWithinThreshold
      /\ QueuedDespawns(commands') \subseteq Range(commands'["projectile_hit"])
      /\ (DOMAIN world \ DOMAIN world') \subseteq
           (DestroyedByHit \cap (Range(enemies) \cup Range(projectiles)))
      /\ (DOMAIN world \ DOMAIN world') # {} => EndTick
      /\ ({game.player, game.spud_gun, game.camera} \cap DOMAIN world)
           \subseteq DOMAIN world'
    ]_vars

\* a tick has destroyed something and left a projectile live
C17_DestroyedAndSurvived ==
  /\ TickBoundary
  /\ tick >= 1
  /\ Cardinality(DOMAIN world) < next_entity
  /\ LiveProjectiles # {}


\* the place of an entity in a list of (entity, x) items
PlaceIn(list, e) == CHOOSE i \in DOMAIN list : list[i].entity = e

\* order holds exactly the items of list, by ascending x, items of equal x
\* in the order they have in list
IsStablySorted(order, list) ==
  /\ Len(order) = Len(list)
  /\ Range(order) = Range(list)
  /\ \A i, j \in DOMAIN order :
       i < j =>
         \/ order[i].x < order[j].x
         \/ /\ order[i].x = order[j].x
            /\ PlaceIn(list, order[i].entity) < PlaceIn(list, order[j].entity)

\* C18: whenever player_aim builds its aim order from the live enemies (an
\* unlatched deflection with an enemy live), it gets one: a permutation of
\* exactly the live enemies, non-decreasing in x, enemies of equal x in
\* their enumeration order.
C18_AimOrderIsStablySorted ==
  [][ \A x \in Deflections :
        (PlayerAimWith(x) /\ gamepad /\ ~game.is_aiming /\ enemies # <<>>) =>
          /\ log'.aim # "panic"
          /\ panicked' = panicked
          /\ IsStablySorted(AimOrder, EnemyList(world, enemies))
    ]_vars


\* the runs of player_aim so far
AimsSoFar == tick + (IF "player_aim" \in done THEN 1 ELSE 0)

\* the stick was deflected in the first tick, when the field was empty, and
\* has been beyond the dead zone in every tick since
HeldSinceEmptyField ==
  /\ cycle.held
  /\ cycle.presses = 1
  /\ cycle.holds + 1 = AimsSoFar

\* C19: an unlatched deflection on a tick with no live enemy sets the latch
\* and leaves aiming_at as it was, a stale Some included; and while the
\* stick is held from then on, whatever enemies spawn, aiming_at stays what
\* it was and the latch stays set.
C19_EmptyFieldLatches ==
  /\ [][ \A x \in Deflections :
           (FieldAimWith(x) /\ ~game.is_aiming /\ enemies = <<>>) =>
             /\ game'.is_aiming
             /\ game'.aiming_at = game.aiming_at ]_vars
  /\ [](HeldSinceEmptyField =>
          /\ game.is_aiming
          /\ game.aiming_at = cycle.start)

\* the stick has been held since the field was empty, enemies have spawned
\* since, and player_aim has just run on them without selecting one
C19_HeldWhileEnemiesSpawned ==
  /\ HeldSinceEmptyField
  /\ Len(enemies) >= 2
  /\ "player_aim" \in done
  /\ log.aim = "latched"
  /\ game.aiming_at = None


\* C20: whenever player_aim gets to its index arithmetic, index +
\* index_increment is one of 0 .. len - 1: it is not negative, the modulo
\* by len leaves it as it is, and the enemy selected is the one at that
\* very place of the order, next to the one aimed at before.
C20_IndexStaysInBounds ==
  [][ \A x \in Deflections :
        ( /\ AimEffect(x)
          /\ gamepad
          /\ ~game.is_aiming
          /\ log'.aim = "next_target" )
        => LET len == Len(AimOrder)
               index == PlaceInAimOrder(Unwrap(game.aiming_at)) - 1
               index_increment == IF x > 0 THEN 1 ELSE -1
           IN /\ index + index_increment \in 0 .. len - 1
              /\ (index + index_increment) % len = index + index_increment
              /\ game'.aiming_at =
                   Some(AimOrder[index + index_increment + 1].entity)
    ]_vars

\* the index arithmetic has run on a later press along a line of three
\* enemies and moved the aim
C20_SteppedAlongTheOrder ==
  /\ log.aim = "next_target"
  /\ Len(enemies) = 3
  /\ cycle.presses >= 2
  /\ cycle.changes = 1

=============================================================================
